---- MODULE Spec2Model ----
(***************************************************************************)
(* Workload store (DatabaseManager) and assignment policy (TaskScheduler)  *)
(* of the resource management app, src/app.py.                             *)
(*                                                                         *)
(* The two SQLite tables are sequences of rows in rowid (insertion) order. *)
(* Hours (REAL columns) take whole-number values; a task's description and *)
(* created_at play no part in any decision of the code and are left out of *)
(* the rows.  `locked' is the database write lock held by a connection     *)
(* that was dropped without close(); `last' is the latest call with its    *)
(* return value or exception.                                              *)
(***************************************************************************)
EXTENDS Integers, Sequences, FiniteSets, TLC

VARIABLES employees, tasks, locked, last

vars == <<employees, tasks, locked, last>>

(***************************************************************************)
(* Bounds                                                                  *)
(***************************************************************************)
MaxTasks == 3
DurationStep == 3
MaxStoreTasks == 2
MaxLoadLevel == 3
LoadStep == 3
MaxNextFree == 1
MaxPolicyDuration == 10
MaxBalanceTasks == 5
MaxBalanceDuration == 4

(***************************************************************************)
(* Program constants and inputs                                            *)
(***************************************************************************)
CAPACITY == 9

\* Employee ids the user can type, listed in Python's string order.
EmpIdOrder == <<"E1", "E10", "E2">>

EmpIds == {EmpIdOrder[i] : i \in 1..Len(EmpIdOrder)}

\* Task durations the user enters: a short and a long task, in whole hours.
Durations == {DurationStep, 2 * DurationStep}

NoneVal == "None"

Max(a, b) == IF a >= b THEN a ELSE b

\* Python's < on str, for the ids of EmpIds.
StrLess(a, b) ==
    LET rank(x) == CHOOSE i \in 1..Len(EmpIdOrder) : EmpIdOrder[i] = x
    IN  rank(a) < rank(b)

\* The comparison of a descending sort.
TupleGreater(a, b) == a[1] > b[1] \/ (a[1] = b[1] /\ StrLess(b[2], a[2]))

\* Python's < on a (float, str) tuple.
TupleLess(a, b) == a[1] < b[1] \/ (a[1] = b[1] /\ StrLess(a[2], b[2]))

RECURSIVE InsertSorted(_, _)
InsertSorted(x, s) ==
    IF s = <<>> THEN <<x>>
    ELSE IF TupleLess(x, Head(s)) THEN <<x>> \o s
    ELSE <<Head(s)>> \o InsertSorted(x, Tail(s))

\* list.sort() on a list of (float, str) tuples.
RECURSIVE ListSort(_)
ListSort(s) == IF s = <<>> THEN <<>> ELSE InsertSorted(Head(s), ListSort(Tail(s)))

\* f"{n:03d}"
Digit(k) == <<"0", "1", "2", "3", "4", "5", "6", "7", "8", "9">>[k + 1]

RECURSIVE Decimal(_)
Decimal(n) == IF n < 10 THEN Digit(n) ELSE Decimal(n \div 10) \o Digit(n % 10)

Format03d(n) ==
    IF n < 10 THEN "00" \o Decimal(n)
    ELSE IF n < 100 THEN "0" \o Decimal(n)
    ELSE Decimal(n)

GenTaskId(existing_tasks) == "TASK_" \o Format03d(Len(existing_tasks) + 1)

(***************************************************************************)
(* Reads                                                                   *)
(***************************************************************************)
EmpIdsOf(emps) == {emps[i].emp_id : i \in 1..Len(emps)}

get_all_employees ==
    [i \in 1..Len(employees) |->
        [emp_id |-> employees[i].emp_id,
         current_workload |-> employees[i].current_workload,
         next_free_time |-> employees[i].next_free_time,
         available_hours |-> Max(0, CAPACITY - employees[i].current_workload),
         is_available |-> employees[i].current_workload < CAPACITY]]

get_all_tasks == tasks

FitsStrictly(emp, task_duration) == emp.available_hours > task_duration

Fits(emp, task_duration) == emp.available_hours >= task_duration

AvailableKeyByHours(emp) == <<emp.available_hours, emp.emp_id>>

AvailableKey(emp) == <<emp.current_workload, emp.emp_id>>

NextFreeKeyByWorkload(emp) == <<emp.current_workload, emp.emp_id>>

NextFreeKey(emp) == <<emp.next_free_time, emp.emp_id>>

find_best_employee(task_duration) ==
    LET emps == get_all_employees
        fitting == SelectSeq(emps, LAMBDA emp : Fits(emp, task_duration))
        available_employees == [i \in 1..Len(fitting) |-> AvailableKey(fitting[i])]
        next_free_times == [i \in 1..Len(emps) |-> NextFreeKey(emps[i])]
    IN  IF emps = <<>> THEN NoneVal
        ELSE IF available_employees /= <<>>
             THEN ListSort(available_employees)[1][2]
             ELSE ListSort(next_free_times)[1][2]

(***************************************************************************)
(* Writes.  Every write opens its own connection; a connection that is     *)
(* dropped without close() after a failed INSERT keeps its open            *)
(* transaction, and with it the database write lock, until it is           *)
(* collected.                                                              *)
(***************************************************************************)
Result(op, emp_id, task_id, duration, result) ==
    [op |-> op, emp_id |-> emp_id, task_id |-> task_id, duration |-> duration, result |-> result]

Busy(op, emp_id, task_id, duration) ==
    /\ last' = Result(op, emp_id, task_id, duration, "OperationalError")
    /\ UNCHANGED <<employees, tasks, locked>>

NewEmployee(emp_id) == [emp_id |-> emp_id, current_workload |-> 0, next_free_time |-> 0]

add_employee(emp_id) ==
    IF locked THEN Busy("add_employee", emp_id, "", 0)
    ELSE IF emp_id \in EmpIdsOf(employees)
    THEN /\ last' = Result("add_employee", emp_id, "", 0, "False")
         /\ locked' = TRUE
         /\ UNCHANGED <<employees, tasks>>
    ELSE /\ employees' = Append(employees, NewEmployee(emp_id))
         /\ last' = Result("add_employee", emp_id, "", 0, "True")
         /\ UNCHANGED <<tasks, locked>>

KeepTasksOf(emp_id) == tasks

DeleteTasksOf(emp_id) == SelectSeq(tasks, LAMBDA t : t.assigned_to /= emp_id)

DeleteEmployee(emp_id) == SelectSeq(employees, LAMBDA e : e.emp_id /= emp_id)

remove_employee(emp_id) ==
    IF locked THEN Busy("remove_employee", emp_id, "", 0)
    ELSE /\ tasks' = DeleteTasksOf(emp_id)
         /\ employees' = DeleteEmployee(emp_id)
         /\ last' = Result("remove_employee", emp_id, "", 0, NoneVal)
         /\ UNCHANGED locked

\* SET clauses evaluated left to right, each seeing the previous one's result.
UpdateWorkloadSequential(duration, assigned_to) ==
    [i \in 1..Len(employees) |->
        IF employees[i].emp_id = assigned_to
        THEN [employees[i] EXCEPT !.current_workload = employees[i].current_workload + duration,
                                  !.next_free_time = employees[i].current_workload + duration + duration]
        ELSE employees[i]]

\* SQL semantics: every right-hand side reads the row as it was before the UPDATE.
UpdateWorkload(duration, assigned_to) ==
    [i \in 1..Len(employees) |->
        IF employees[i].emp_id = assigned_to
        THEN [employees[i] EXCEPT !.current_workload = employees[i].current_workload + duration,
                                  !.next_free_time = employees[i].current_workload + duration]
        ELSE employees[i]]

add_task(task_id, duration, assigned_to) ==
    IF locked THEN Busy("add_task", assigned_to, task_id, duration)
    ELSE IF \E i \in 1..Len(tasks) : tasks[i].task_id = task_id
    THEN /\ last' = Result("add_task", assigned_to, task_id, duration, "IntegrityError")
         /\ locked' = TRUE
         /\ UNCHANGED <<employees, tasks>>
    ELSE /\ tasks' = Append(tasks, [task_id |-> task_id, duration |-> duration,
                                    assigned_to |-> assigned_to])
         /\ employees' = UpdateWorkload(duration, assigned_to)
         /\ last' = Result("add_task", assigned_to, task_id, duration, NoneVal)
         /\ UNCHANGED locked

reset_all_data ==
    IF locked THEN Busy("reset_all_data", "", "", 0)
    ELSE /\ tasks' = <<>>
         /\ employees' = <<>>
         /\ last' = Result("reset_all_data", "", "", 0, NoneVal)
         /\ UNCHANGED locked

\* The collector closes a dropped connection, which rolls back and unlocks.
CollectConnection ==
    /\ locked
    /\ locked' = FALSE
    /\ UNCHANGED <<employees, tasks, last>>

(***************************************************************************)
(* The four entry points of the UI                                         *)
(***************************************************************************)
AddEmployeeButton == \E emp_id \in EmpIds : add_employee(emp_id)

RemoveEmployeeButton == \E emp_to_remove \in EmpIdsOf(employees) : remove_employee(emp_to_remove)

AddTaskButton(task_duration) ==
    IF get_all_employees = <<>>
    THEN /\ last' = Result("task_management", "", "", task_duration, "Please add employees first!")
         /\ UNCHANGED <<employees, tasks, locked>>
    ELSE LET best_emp == find_best_employee(task_duration)
             task_id == GenTaskId(get_all_tasks)
         IN  IF best_emp /= NoneVal
             THEN add_task(task_id, task_duration, best_emp)
             ELSE /\ last' = Result("task_management", "", "", task_duration,
                                   "No employees available!")
                  /\ UNCHANGED <<employees, tasks, locked>>

task_management ==
    \E task_duration \in Durations :
        /\ Len(tasks) < MaxTasks
        /\ AddTaskButton(task_duration)

ResetButton ==
    /\ \E i \in 1..Len(tasks) : tasks[i].assigned_to \in EmpIdsOf(employees)
    /\ reset_all_data

NoCall == Result("", "", "", 0, NoneVal)

Init ==
    /\ employees = <<>>
    /\ tasks = <<>>
    /\ locked = FALSE
    /\ last = NoCall

Next ==
    \/ AddEmployeeButton
    \/ RemoveEmployeeButton
    \/ task_management
    \/ ResetButton
    \/ CollectConnection

Spec == Init /\ [][Next]_vars

(***************************************************************************)
(* The store called directly, with any arguments                           *)
(***************************************************************************)
StoreTaskIds == {"TASK_" \o Format03d(n) : n \in 1..MaxStoreTasks}

StoreAddEmployee == \E emp_id \in EmpIds : add_employee(emp_id)

StoreRemoveEmployee == \E emp_id \in EmpIds : remove_employee(emp_id)

StoreAddTask ==
    \E task_id \in StoreTaskIds, duration \in Durations, assigned_to \in EmpIds :
        add_task(task_id, duration, assigned_to)

StoreReset == reset_all_data

StoreNext ==
    \/ StoreAddEmployee
    \/ StoreRemoveEmployee
    \/ StoreAddTask
    \/ StoreReset
    \/ CollectConnection

StoreSpec == Init /\ [][StoreNext]_vars

(***************************************************************************)
(* The policy as a function of an arbitrary snapshot                       *)
(***************************************************************************)
WorkloadLevels == {k * LoadStep : k \in 0..MaxLoadLevel}

SnapshotRows ==
    [emp_id : EmpIds, current_workload : WorkloadLevels, next_free_time : 0..MaxNextFree]

\* Tables of up to Len(EmpIdOrder) rows with pairwise distinct primary keys.
Snapshots ==
    {<<>>}
    \cup {<<a>> : a \in SnapshotRows}
    \cup {<<a, b>> : <<a, b>> \in {p \in SnapshotRows \X SnapshotRows : p[1].emp_id /= p[2].emp_id}}
    \cup {<<a, b, c>> : <<a, b, c>> \in
            {p \in SnapshotRows \X SnapshotRows \X SnapshotRows :
                /\ p[1].emp_id /= p[2].emp_id
                /\ p[1].emp_id /= p[3].emp_id
                /\ p[2].emp_id /= p[3].emp_id}}

PolicyInit ==
    /\ employees \in Snapshots
    /\ tasks = <<>>
    /\ locked = FALSE
    /\ last = NoCall

PolicyCall ==
    \E task_duration \in 1..MaxPolicyDuration :
        /\ last' = Result("find_best_employee", "", "", task_duration,
                          find_best_employee(task_duration))
        /\ UNCHANGED <<employees, tasks, locked>>

PolicyNext == PolicyCall

PolicySpec == PolicyInit /\ [][PolicyNext]_vars

(***************************************************************************)
(* Add-task only, on a fixed roster that starts idle                       *)
(***************************************************************************)
IdleRosters ==
    {s \in Snapshots : \A i \in 1..Len(s) : s[i].current_workload = 0 /\ s[i].next_free_time = 0}

BalanceInit ==
    /\ employees \in IdleRosters
    /\ tasks = <<>>
    /\ locked = FALSE
    /\ last = NoCall

BalanceAddTask ==
    \E task_duration \in 1..MaxBalanceDuration :
        /\ Len(tasks) < MaxBalanceTasks
        /\ AddTaskButton(task_duration)

BalanceNext == BalanceAddTask

BalanceSpec == BalanceInit /\ [][BalanceNext]_vars

(***************************************************************************)
(* Properties                                                              *)
(***************************************************************************)
RECURSIVE SumDurations(_, _)
SumDurations(ts, emp_id) ==
    IF ts = <<>> THEN 0
    ELSE (IF Head(ts).assigned_to = emp_id THEN Head(ts).duration ELSE 0)
         + SumDurations(Tail(ts), emp_id)

TasksOf(ts, emp_id) == SelectSeq(ts, LAMBDA t : t.assigned_to = emp_id)

Row(emps, emp_id) == emps[CHOOSE i \in 1..Len(emps) : emps[i].emp_id = emp_id]

\* (w1, id1) <= (w2, id2) in the order of the policy's sort
KeyLeq(w1, id1, w2, id2) == w1 < w2 \/ (w1 = w2 /\ (id1 = id2 \/ StrLess(id1, id2)))

\* C1: under the four entry points every employee's current_workload is the
\* sum of the durations of the stored tasks assigned to that employee.
C1_WorkloadIsSumOfTasks ==
    \A i \in 1..Len(employees) :
        employees[i].current_workload = SumDurations(tasks, employees[i].emp_id)

C1_Witness ==
    /\ last.op = "remove_employee"
    /\ last.result = NoneVal
    /\ \E i \in 1..Len(employees) : Len(TasksOf(tasks, employees[i].emp_id)) >= 2
    /\ \E i \in 1..Len(employees) : employees[i].current_workload = 0

\* C2: when some employee of the snapshot has available_hours >= d, the
\* policy returns an employee that fits, whose current_workload is the
\* smallest among those that fit, and whose id is the smallest among the
\* fitting employees with that workload.
C2_FitsTodayPhase ==
    LET d == last.duration
        emps == get_all_employees
        fit == {i \in 1..Len(emps) : emps[i].available_hours >= d}
    IN  (last.op = "find_best_employee" /\ fit /= {}) =>
            \E i \in fit :
                /\ emps[i].emp_id = last.result
                /\ \A j \in fit :
                    KeyLeq(emps[i].current_workload, emps[i].emp_id,
                           emps[j].current_workload, emps[j].emp_id)

C2_Witness ==
    LET d == last.duration
        emps == get_all_employees
        fit == {i \in 1..Len(emps) : emps[i].available_hours >= d}
    IN  /\ last.op = "find_best_employee"
        /\ Cardinality(fit) = 2
        /\ Len(emps) = 3
        /\ \E i \in fit : emps[i].available_hours = d /\ emps[i].emp_id = last.result
        /\ \A i, j \in fit : emps[i].current_workload = emps[j].current_workload
        /\ \E i \in fit : emps[i].next_free_time > emps[CHOOSE k \in fit : k /= i].next_free_time
                          /\ emps[i].emp_id = last.result

\* C3: when the snapshot is not empty and no employee has
\* available_hours >= d, the policy returns the id of an employee of the
\* snapshot whose next_free_time is the smallest of all, the smallest id
\* among those tied.
C3_OverflowPhase ==
    LET d == last.duration
        emps == get_all_employees
        fit == {i \in 1..Len(emps) : emps[i].available_hours >= d}
    IN  (last.op = "find_best_employee" /\ emps /= <<>> /\ fit = {}) =>
            \E i \in 1..Len(emps) :
                /\ emps[i].emp_id = last.result
                /\ \A j \in 1..Len(emps) :
                    KeyLeq(emps[i].next_free_time, emps[i].emp_id,
                           emps[j].next_free_time, emps[j].emp_id)

C3_Witness ==
    LET d == last.duration
        emps == get_all_employees
    IN  /\ last.op = "find_best_employee"
        /\ Len(emps) = 3
        /\ \A i \in 1..Len(emps) : emps[i].available_hours < d
        /\ \E i, j \in 1..Len(emps) :
            /\ emps[i].emp_id = last.result
            /\ emps[i].current_workload > emps[j].current_workload
            /\ emps[i].next_free_time < emps[j].next_free_time
        /\ \E i, j \in 1..Len(emps) :
            /\ i /= j
            /\ emps[i].emp_id = last.result
            /\ emps[i].next_free_time = emps[j].next_free_time

\* C4: with a non-empty roster the task id the add-task entry point
\* generates, TASK_ and the number of stored tasks plus one, is the id of no
\* stored task (so the insert cannot violate the primary key).
C4_GeneratedTaskIdIsFresh ==
    employees /= <<>> =>
        \A i \in 1..Len(tasks) : tasks[i].task_id /= GenTaskId(get_all_tasks)

\* C5: remove_employee(id) raises no error; afterwards no employee has that
\* id and no task is assigned to it, every other employee row and every task
\* of another employee is as before, and when id was not an employee the
\* tables are unchanged.
C5_RemoveEmployeeCascadesOnly ==
    [][\A emp_id \in EmpIds :
          remove_employee(emp_id) =>
              /\ last'.result = NoneVal
              /\ emp_id \notin EmpIdsOf(employees')
              /\ \A i \in 1..Len(tasks') : tasks'[i].assigned_to /= emp_id
              /\ employees' = SelectSeq(employees, LAMBDA e : e.emp_id /= emp_id)
              /\ tasks' = SelectSeq(tasks, LAMBDA t : t.assigned_to /= emp_id)
              /\ (emp_id \notin EmpIdsOf(employees) => UNCHANGED <<employees, tasks>>)]_vars

\* C6: add_employee(id) returns False and changes no row when id exists;
\* otherwise it returns True and inserts one employee row with
\* current_workload 0 and next_free_time 0.
C6_AddEmployeeResult ==
    [][\A emp_id \in EmpIds :
          add_employee(emp_id) =>
              IF emp_id \in EmpIdsOf(employees)
              THEN last'.result = "False" /\ UNCHANGED <<employees, tasks>>
              ELSE /\ last'.result = "True"
                   /\ Len(employees') = Len(employees) + 1
                   /\ SubSeq(employees', 1, Len(employees)) = employees
                   /\ employees'[Len(employees')] =
                        [emp_id |-> emp_id, current_workload |-> 0, next_free_time |-> 0]
                   /\ UNCHANGED tasks]_vars

\* C7: in every state reachable through the store operations called with
\* any arguments, every stored task is assigned to an existing employee.
C7_AssignedToExists ==
    \A i \in 1..Len(tasks) : tasks[i].assigned_to \in EmpIdsOf(employees)

\* C8: under the four entry points every employee's next_free_time equals
\* its current_workload.
C8_NextFreeIsWorkload ==
    \A i \in 1..Len(employees) :
        employees[i].next_free_time = employees[i].current_workload

C8_Witness ==
    /\ last.op = "add_task"
    /\ last.result = NoneVal
    /\ Len(TasksOf(tasks, last.emp_id)) >= 2
    /\ Row(employees, last.emp_id).next_free_time > last.duration

\* C9: with a non-empty roster, for every duration the two-phase policy
\* returns the employee that is least by (current_workload, id) over the
\* whole roster.
C9_SameAsSinglePhase ==
    employees /= <<>> =>
        \A d \in 1..MaxPolicyDuration :
            LET best_emp == find_best_employee(d) IN
            \E i \in 1..Len(employees) :
                /\ best_emp = employees[i].emp_id
                /\ \A j \in 1..Len(employees) :
                    KeyLeq(employees[i].current_workload, employees[i].emp_id,
                           employees[j].current_workload, employees[j].emp_id)

C9_Witness ==
    /\ Len(employees) >= 2
    /\ \E i, j \in 1..Len(employees) :
        /\ employees[i].current_workload > employees[j].current_workload
        /\ employees[j].current_workload > 0
        /\ \E d \in Durations :
            /\ \A k \in 1..Len(employees) : ~Fits(get_all_employees[k], d)
            /\ find_best_employee(d) = employees[j].emp_id

MaxOf(S) == CHOOSE x \in S : \A y \in S : y <= x

MinOf(S) == CHOOSE x \in S : \A y \in S : x <= y

Workloads == {employees[i].current_workload : i \in 1..Len(employees)}

\* C10: on a roster that starts idle and does not change, after add-task
\* operations whose durations are all at most D the largest and the
\* smallest current_workload differ by at most D.
C10_LoadBalance ==
    \A D \in 1..MaxBalanceDuration :
        (employees /= <<>> /\ \A i \in 1..Len(tasks) : tasks[i].duration <= D) =>
            MaxOf(Workloads) - MinOf(Workloads) <= D

C10_Witness ==
    /\ Len(employees) >= 2
    /\ Len(tasks) = MaxBalanceTasks
    /\ MaxOf(Workloads) > CAPACITY
    /\ \E D \in 1..MaxBalanceDuration :
        /\ \A i \in 1..Len(tasks) : tasks[i].duration <= D
        /\ MaxOf(Workloads) - MinOf(Workloads) = D

====
